---- MODULE Spec2Model ----
(***************************************************************************)
(* MouseShare companion clients (src/linux/mouseshare.py and               *)
(* src/windows/mouseshare.py): the tcp_client session loop, the frame      *)
(* reader and inject_event, as one state machine.  The platform is chosen  *)
(* in Init and fixed afterwards; each action follows the code of the       *)
(* platform it runs on.                                                     *)
(***************************************************************************)
EXTENDS Integers, Sequences, FiniteSets, TLC

VARIABLES
    platform,           \* "linux" | "windows": which mouseshare.py runs
    pc,                 \* await point tcp_client is suspended at
    connection_status,  \* windows: _connection_status ("n/a" on linux)
    writer,             \* windows: local `writer` (0 = None, 1 = a StreamWriter)
    open_sockets,       \* sockets opened by open_connection and not yet closed
    length,             \* local `length` of the frame being read (-1: not yet bound)
    pressed_keys,       \* windows: _pressed_keys
    down,               \* keys/buttons the OS holds down (last injected state)
    frames,             \* complete frames read from the socket in this session
    dispatched,         \* indices of the frames handed to inject_event, in order
    outbox,             \* returnControl frames written in this session
    waits,              \* asyncio.sleep(RECONNECT_DELAY) completed since the last fault
    failures,           \* consecutive sessions/attempts that ended in a fault
    delay,              \* argument of the asyncio.sleep in progress (0: none)
    rc_last,            \* the event dispatched last in this session was returnControl
    last,               \* what the last step did (payload, injection calls, ...)
    screen,             \* SCREEN_WIDTH, SCREEN_HEIGHT as found at startup
    poll_pc,            \* linux: where _edge_detection_loop is ("idle": not started)
    stop_event,         \* linux: the asyncio.Event given to _edge_detection_loop
    pending,            \* write calls of a frame still to be made by its writer
    wire,               \* what writer.write was given, in order, by either loop
    rx                  \* bytes on their way to the reader, and what _read_exact holds

vars == <<platform, pc, connection_status, writer, open_sockets, length,
          pressed_keys, down, frames, dispatched, outbox, waits, failures,
          delay, rc_last, last, screen, poll_pc, stop_event, pending, wire, rx>>

\* What tcp_client's own steps never touch
aux == <<screen, poll_pc, stop_event, pending, wire, rx>>

\* No byte in flight and none read (where reads are taken whole)
NoBytes == [stream |-> <<>>, data |-> <<>>, sent |-> <<>>, total |-> 0]

----------------------------------------------------------------------------
(* Bounds of the model *)

MaxFrames == 3        \* frames read per session
MaxSockets == 2       \* sockets open at once (linux never closes one)
MaxFailures == 2      \* the count of consecutive failures saturates here

----------------------------------------------------------------------------
(* Program constants *)

EDGE_THRESHOLD == 5
RECONNECT_DELAY == 2
MAX_FRAME_LENGTH == 1000000
\* Globals read once at startup (linux: detect_screen_resolution, default
\* 1920x1080; windows: GetSystemMetrics) and fixed afterwards
SCREEN_WIDTH == screen.w
SCREEN_HEIGHT == screen.h
WHEEL_DELTA == 120

MOUSEEVENTF_LEFTDOWN == 2
MOUSEEVENTF_LEFTUP == 4
MOUSEEVENTF_RIGHTDOWN == 8
MOUSEEVENTF_RIGHTUP == 16
MOUSEEVENTF_WHEEL == 2048
MOUSEEVENTF_HWHEEL == 4096
KEYEVENTF_KEYUP == 2
KEYEVENTF_EXTENDEDKEY == 1
VK_RETURN == 13
VK_DIVIDE == 111

\* evdev codes used by the linux client
KEY_ENTER == 28
KEY_KPENTER == 96
KEY_KPSLASH == 98
BTN_LEFT == 272
BTN_RIGHT == 273
REL_WHEEL == 8
REL_HWHEEL == 6

\* Excerpts of the key tables: two source codes that share a windows code
\* (36 and 76 -> VK_RETURN), and an extended key (75).
MAC_TO_WIN_KEYCODE == (36 :> VK_RETURN) @@ (76 :> VK_RETURN) @@ (75 :> VK_DIVIDE)
MAC_TO_LINUX_KEYCODE == (36 :> KEY_ENTER) @@ (76 :> KEY_KPENTER) @@ (75 :> KEY_KPSLASH)
EXTENDED_KEYS == {VK_DIVIDE}

\* Normalised coordinates are the dyadic rationals n / NormDen, which Python
\* floats hold exactly, so nx * SCREEN_WIDTH is computed without rounding.
NormDen == 2^10

----------------------------------------------------------------------------
(* JSON values and payloads *)

Absent == [t |-> "absent", n |-> 0]     \* key missing from the object
Num(n) == [t |-> "num", n |-> n]
Str == [t |-> "str", n |-> 0]           \* a non-numeric string
List == [t |-> "list", n |-> 0]         \* a JSON array (unhashable in Python)

Mk(json, type, kc, nx, ny, sx, sy) ==
    [json |-> json, type |-> type, keyCode |-> kc, normalizedX |-> nx,
     normalizedY |-> ny, scrollDeltaX |-> sx, scrollDeltaY |-> sy]

NoPayload == Mk("none", "", Absent, Absent, Absent, Absent, Absent)
\* bytes that are not UTF-8 JSON: json.loads(payload.decode("utf-8")) raises
InvalidJson == Mk("invalid", "", Absent, Absent, Absent, Absent, Absent)
\* JSON that is not an object (a number, a string, an array, null)
ScalarJson == Mk("scalar", "", Absent, Absent, Absent, Absent, Absent)
Obj(type) == Mk("object", type, Absent, Absent, Absent, Absent, Absent)
Move(nx, ny) == Mk("object", "mouseMove", Absent, nx, ny, Absent, Absent)
Key(type, kc) == Mk("object", type, kc, Absent, Absent, Absent, Absent)
Scroll(sx, sy) == Mk("object", "scrollWheel", Absent, Absent, Absent, sx, sy)

Payloads ==
    {InvalidJson, ScalarJson}
    \cup {Obj(t) : t \in {"leftMouseDown", "leftMouseUp", "rightMouseDown",
                          "rightMouseUp", "returnControl", "bogus", "absent"}}
    \cup {Move(Num(0), Num(512)), Move(Num(3), Num(512)), Move(Num(512), Num(512)),
          Move(Num(1024), Num(1024)), Move(Str, Num(512)), Move(Absent, Absent)}
    \cup {Key(t, k) : t \in {"keyDown", "keyUp"},
                      k \in {Num(36), Num(76), Num(75), Num(9999), Absent, Str, List}}
    \cup {Scroll(Absent, Num(1)), Scroll(Num(1), Absent), Scroll(Str, Num(1))}

\* Header values the peer may send (struct.unpack("!I"): never negative);
\* 2147483647 stands for the values above it, which the check treats alike.
HeaderLengths == {0, 1, 64, MAX_FRAME_LENGTH, MAX_FRAME_LENGTH + 1, 2147483647}

----------------------------------------------------------------------------
(* Injection calls and the state of the OS input they act on *)

Call(api, code, value) == [api |-> api, code |-> code, value |-> value]
Held(dev, code) == [dev |-> dev, code |-> code]

Max(a, b) == IF a >= b THEN a ELSE b
Min(a, b) == IF a <= b THEN a ELSE b
\* Python int() of a quotient: truncation toward zero
Trunc(a, b) == IF a >= 0 THEN a \div b ELSE -((-a) \div b)

RECURSIVE SortedSeq(_)
SortedSeq(S) ==
    IF S = {} THEN <<>>
    ELSE LET m == CHOOSE x \in S : \A y \in S : x <= y
         IN  <<m>> \o SortedSeq(S \ {m})

\* Effect of one injection call on the set of held keys and buttons
ApplyCall(d, c) ==
    CASE c.api = "key" ->
            IF (c.value \div KEYEVENTF_KEYUP) % 2 = 1
            THEN d \ {Held("key", c.code)}
            ELSE d \cup {Held("key", c.code)}
      [] c.api = "mouse" ->
            CASE c.code = MOUSEEVENTF_LEFTDOWN  -> d \cup {Held("button", MOUSEEVENTF_LEFTDOWN)}
              [] c.code = MOUSEEVENTF_LEFTUP    -> d \ {Held("button", MOUSEEVENTF_LEFTDOWN)}
              [] c.code = MOUSEEVENTF_RIGHTDOWN -> d \cup {Held("button", MOUSEEVENTF_RIGHTDOWN)}
              [] c.code = MOUSEEVENTF_RIGHTUP   -> d \ {Held("button", MOUSEEVENTF_RIGHTDOWN)}
              [] OTHER -> d
      [] c.api = "EV_KEY" ->
            IF c.value = 1 THEN d \cup {Held("key", c.code)}
            ELSE d \ {Held("key", c.code)}
      [] OTHER -> d

RECURSIVE ApplyCalls(_, _)
ApplyCalls(d, calls) ==
    IF calls = <<>> THEN d
    ELSE ApplyCalls(ApplyCall(d, Head(calls)), Tail(calls))

----------------------------------------------------------------------------
(* windows: _send_mouse_input, _send_key_input, _release_all_keys *)

\* mouseData = DWORD(data & 0xFFFFFFFF): the low 32 bits of data, kept here
\* as the signed number that has those bits
send_mouse_input(flags, data) == Call("mouse", flags, data)

\* Mutant: the key-up flag is set whatever is_down says
send_key_input_keyup(vk, isDown) ==
    Call("key", vk % 65536,
         KEYEVENTF_KEYUP + (IF vk \in EXTENDED_KEYS THEN KEYEVENTF_EXTENDEDKEY ELSE 0))

send_key_input(vk, isDown) ==
    Call("key", vk % 65536,
         (IF isDown THEN 0 ELSE KEYEVENTF_KEYUP)
         + (IF vk \in EXTENDED_KEYS THEN KEYEVENTF_EXTENDEDKEY ELSE 0))

\* Mutant: _release_all_keys without its two mouse-button branches
release_all_keys_no_buttons(pressed) ==
    [calls |-> [i \in 1..Cardinality(pressed) |->
                   send_key_input(SortedSeq(pressed)[i], FALSE)],
     pressed |-> {}]

\* Mutant: _release_all_keys without its final _pressed_keys.clear()
release_all_keys_noclear(pressed) ==
    [calls |-> [i \in 1..Cardinality(pressed) |->
                   send_key_input(SortedSeq(pressed)[i], FALSE)]
               \o (IF -1 \in pressed THEN <<send_mouse_input(MOUSEEVENTF_LEFTUP, 0)>> ELSE <<>>)
               \o (IF -2 \in pressed THEN <<send_mouse_input(MOUSEEVENTF_RIGHTUP, 0)>> ELSE <<>>),
     pressed |-> pressed]

\* `for vk in list(_pressed_keys)` is taken in ascending order; the order a
\* Python set iterates in does not change the set of calls made.
release_all_keys(pressed) ==
    LET ks == SortedSeq(pressed)
    IN  [calls |-> [i \in 1..Len(ks) |-> send_key_input(ks[i], FALSE)]
                   \o (IF -1 \in pressed THEN <<send_mouse_input(MOUSEEVENTF_LEFTUP, 0)>> ELSE <<>>)
                   \o (IF -2 \in pressed THEN <<send_mouse_input(MOUSEEVENTF_RIGHTUP, 0)>> ELSE <<>>),
         pressed |-> {}]

----------------------------------------------------------------------------
(* inject_event *)

\* (should_return, norm_y); norm_y is the fraction num/den
NoReturn == [should |-> FALSE, num |-> 0, den |-> 1]
\* Mutant: the quotient is taken without the `if SCREEN_HEIGHT` guard; a
\* denominator of 0 stands for the ZeroDivisionError
EdgeReturnUnguarded(y) == [should |-> TRUE, num |-> y, den |-> SCREEN_HEIGHT]

EdgeReturn(y) ==
    IF SCREEN_HEIGHT # 0 THEN [should |-> TRUE, num |-> y, den |-> SCREEN_HEIGHT]
    ELSE [should |-> TRUE, num |-> 0, den |-> 1]

\* raised: an exception left inject_event; calls: injection calls made before
\* it returned or raised; releases: invocations of _release_all_keys
Outcome(raised, calls, pressed, ret, releases) ==
    [raised |-> raised, calls |-> calls, pressed |-> pressed, ret |-> ret,
     releases |-> releases]

IsNumber(v) == v.t \in {"num", "absent"}      \* event.get(k, 0) gave a number
NumOr0(v) == IF v.t = "num" THEN v.n ELSE 0
Truthy(v) == (v.t = "num" /\ v.n # 0) \/ v.t \in {"str", "list"}

\* Mutant: the pixel is not held below the size of the screen
PixelNoUpperClamp(n, size) == Max(0, Trunc(n * size, NormDen))

\* x = max(0, min(int(n * SIZE), SIZE - 1))
Pixel(n, size) == Max(0, Min(Trunc(n * size, NormDen), size - 1))

\* Mutant: handback at the right edge as well as the left one
at_any_edge(x) == x <= EDGE_THRESHOLD \/ x >= SCREEN_WIDTH - 1 - EDGE_THRESHOLD

\* `if x <= EDGE_THRESHOLD:` -- the pointer is at the left edge
at_edge(x) == x <= EDGE_THRESHOLD

win_inject_event(event, pressed) ==
    IF event.json # "object"
    THEN Outcome(TRUE, <<>>, pressed, NoReturn, 0)      \* event.get: AttributeError
    ELSE CASE event.type = "mouseMove" ->
            IF IsNumber(event.normalizedX) /\ IsNumber(event.normalizedY)
            THEN LET x == Pixel(NumOr0(event.normalizedX), SCREEN_WIDTH)
                     y == Pixel(NumOr0(event.normalizedY), SCREEN_HEIGHT)
                 IN  Outcome(FALSE, <<Call("SetCursorPos", x, y)>>, pressed,
                             IF at_edge(x) THEN EdgeReturn(y) ELSE NoReturn, 0)
            ELSE Outcome(TRUE, <<>>, pressed, NoReturn, 0)   \* int(): ValueError/TypeError
      [] event.type = "leftMouseDown" ->
            Outcome(FALSE, <<send_mouse_input(MOUSEEVENTF_LEFTDOWN, 0)>>,
                    pressed \cup {-1}, NoReturn, 0)
      [] event.type = "leftMouseUp" ->
            Outcome(FALSE, <<send_mouse_input(MOUSEEVENTF_LEFTUP, 0)>>,
                    pressed \ {-1}, NoReturn, 0)
      [] event.type = "rightMouseDown" ->
            Outcome(FALSE, <<send_mouse_input(MOUSEEVENTF_RIGHTDOWN, 0)>>,
                    pressed \cup {-2}, NoReturn, 0)
      [] event.type = "rightMouseUp" ->
            Outcome(FALSE, <<send_mouse_input(MOUSEEVENTF_RIGHTUP, 0)>>,
                    pressed \ {-2}, NoReturn, 0)
      [] event.type \in {"keyDown", "keyUp"} ->
            LET kc == event.keyCode
            IN  IF kc.t = "absent" THEN Outcome(FALSE, <<>>, pressed, NoReturn, 0)
                ELSE IF kc.t = "list"                       \* dict.get: unhashable
                THEN Outcome(TRUE, <<>>, pressed, NoReturn, 0)
                ELSE IF kc.t # "num" \/ kc.n \notin DOMAIN MAC_TO_WIN_KEYCODE
                THEN Outcome(FALSE, <<>>, pressed, NoReturn, 0)
                ELSE LET vk == MAC_TO_WIN_KEYCODE[kc.n]
                         isDown == event.type = "keyDown"
                     IN  Outcome(FALSE, <<send_key_input(vk, isDown)>>,
                                 IF isDown THEN pressed \cup {vk} ELSE pressed \ {vk},
                                 NoReturn, 0)
      [] event.type = "scrollWheel" ->
            LET dx == event.scrollDeltaX
                dy == event.scrollDeltaY
                cy == IF Truthy(dy) /\ dy.t = "num"
                      THEN <<send_mouse_input(MOUSEEVENTF_WHEEL, dy.n * WHEEL_DELTA)>>
                      ELSE <<>>
                cx == IF Truthy(dx) /\ dx.t = "num"
                      THEN <<send_mouse_input(MOUSEEVENTF_HWHEEL, dx.n * WHEEL_DELTA)>>
                      ELSE <<>>
            IN  IF Truthy(dy) /\ dy.t # "num"
                THEN Outcome(TRUE, <<>>, pressed, NoReturn, 0)
                ELSE IF Truthy(dx) /\ dx.t # "num"
                THEN Outcome(TRUE, cy, pressed, NoReturn, 0)
                ELSE Outcome(FALSE, cy \o cx, pressed, NoReturn, 0)
      [] event.type = "returnControl" ->
            LET r == release_all_keys(pressed)
            IN  Outcome(FALSE, r.calls, r.pressed, NoReturn, 1)
      [] OTHER -> Outcome(FALSE, <<>>, pressed, NoReturn, 0)

\* linux: _inject_mouse_move
inject_mouse_move(event) ==
    LET x == Pixel(NumOr0(event.normalizedX), SCREEN_WIDTH)
        y == Pixel(NumOr0(event.normalizedY), SCREEN_HEIGHT)
    IN  [x |-> x, y |-> y, calls |-> <<Call("mousemove", x, y)>>]

KeyWrite(code, value) == <<Call("EV_KEY", code, value), Call("syn", 0, 0)>>

\* linux: inject_event keeps no record of what is pressed
linux_inject_event(event, pressed) ==
    IF event.json # "object"
    THEN Outcome(TRUE, <<>>, pressed, NoReturn, 0)
    ELSE CASE event.type = "mouseMove" ->
            IF IsNumber(event.normalizedX) /\ IsNumber(event.normalizedY)
            THEN LET m == inject_mouse_move(event)
                 IN  Outcome(FALSE, m.calls, pressed,
                             IF at_edge(m.x) THEN EdgeReturn(m.y) ELSE NoReturn, 0)
            ELSE Outcome(TRUE, <<>>, pressed, NoReturn, 0)
      [] event.type = "leftMouseDown" -> Outcome(FALSE, KeyWrite(BTN_LEFT, 1), pressed, NoReturn, 0)
      [] event.type = "leftMouseUp" -> Outcome(FALSE, KeyWrite(BTN_LEFT, 0), pressed, NoReturn, 0)
      [] event.type = "rightMouseDown" -> Outcome(FALSE, KeyWrite(BTN_RIGHT, 1), pressed, NoReturn, 0)
      [] event.type = "rightMouseUp" -> Outcome(FALSE, KeyWrite(BTN_RIGHT, 0), pressed, NoReturn, 0)
      [] event.type \in {"keyDown", "keyUp"} ->
            LET kc == event.keyCode
            IN  IF kc.t = "absent" THEN Outcome(FALSE, <<>>, pressed, NoReturn, 0)
                ELSE IF kc.t = "list"
                THEN Outcome(TRUE, <<>>, pressed, NoReturn, 0)
                ELSE IF kc.t # "num" \/ kc.n \notin DOMAIN MAC_TO_LINUX_KEYCODE
                THEN Outcome(FALSE, <<>>, pressed, NoReturn, 0)
                ELSE Outcome(FALSE,
                             KeyWrite(MAC_TO_LINUX_KEYCODE[kc.n],
                                      IF event.type = "keyDown" THEN 1 ELSE 0),
                             pressed, NoReturn, 0)
      [] event.type = "scrollWheel" ->
            LET dx == event.scrollDeltaX
                dy == event.scrollDeltaY
                cy == IF Truthy(dy) /\ dy.t = "num"
                      THEN <<Call("EV_REL", REL_WHEEL, dy.n)>> ELSE <<>>
                cx == IF Truthy(dx) /\ dx.t = "num"
                      THEN <<Call("EV_REL", REL_HWHEEL, dx.n)>> ELSE <<>>
            IN  IF Truthy(dy) /\ dy.t # "num"
                THEN Outcome(TRUE, <<>>, pressed, NoReturn, 0)
                ELSE IF Truthy(dx) /\ dx.t # "num"
                THEN Outcome(TRUE, cy, pressed, NoReturn, 0)
                ELSE Outcome(FALSE,
                             cy \o cx \o (IF Truthy(dy) \/ Truthy(dx)
                                          THEN <<Call("syn", 0, 0)>> ELSE <<>>),
                             pressed, NoReturn, 0)
      [] OTHER -> Outcome(FALSE, <<>>, pressed, NoReturn, 0)   \* incl. returnControl

\* The event types inject_event has a branch for
KnownTypes ==
    {"mouseMove", "leftMouseDown", "leftMouseUp", "rightMouseDown", "rightMouseUp",
     "keyDown", "keyUp", "scrollWheel", "returnControl"}

\* Mutant: a final `else: raise` for event types without a branch
inject_event_strict(event, pressed) ==
    IF event.json = "object" /\ event.type \notin KnownTypes
    THEN Outcome(TRUE, <<>>, pressed, NoReturn, 0)
    ELSE IF platform = "windows" THEN win_inject_event(event, pressed)
    ELSE linux_inject_event(event, pressed)

\* Mutant: a key code the table lacks is injected as it came
inject_event_rawkey(event, pressed) ==
    IF /\ event.json = "object" /\ event.type \in {"keyDown", "keyUp"}
       /\ event.keyCode.t = "num"
       /\ event.keyCode.n \notin DOMAIN MAC_TO_WIN_KEYCODE
    THEN IF platform = "windows"
         THEN Outcome(FALSE, <<send_key_input(event.keyCode.n, event.type = "keyDown")>>,
                      pressed, NoReturn, 0)
         ELSE Outcome(FALSE,
                      KeyWrite(event.keyCode.n, IF event.type = "keyDown" THEN 1 ELSE 0),
                      pressed, NoReturn, 0)
    ELSE IF platform = "windows" THEN win_inject_event(event, pressed)
    ELSE linux_inject_event(event, pressed)

inject_event(event, pressed) ==
    IF platform = "windows" THEN win_inject_event(event, pressed)
    ELSE linux_inject_event(event, pressed)

----------------------------------------------------------------------------
(* tcp_client *)

\* The session state of the spec.  windows keeps it in _connection_status;
\* linux has no such variable and the state is the place in tcp_client.
State ==
    IF platform = "windows" THEN connection_status
    ELSE CASE pc = "open_connection" -> "Connecting"
           [] pc \in {"read_header", "read_payload", "drain"} -> "Connected"
           [] OTHER -> "Disconnected"

Step(act, fault, payload, handed, calls, releases) ==
    [act |-> act, fault |-> fault, payload |-> payload, handed |-> handed,
     calls |-> calls, releases |-> releases, after_rc |-> rc_last]

ReturnFrame(ret) ==
    [type |-> "returnControl", normalizedX |-> 0, num |-> ret.num,
     den |-> ret.den, edge |-> "left"]

\* Mutant: a backoff that doubles with every consecutive failure
BackoffExponential(n) == RECONNECT_DELAY * 2^n

\* await asyncio.sleep(RECONNECT_DELAY): the delay after n consecutive failures
Backoff(n) == RECONNECT_DELAY

\* `length == 0 or length > 1_000_000`
BadLength(L) == L = 0 \/ L > MAX_FRAME_LENGTH

\* windows `finally:` -- what it does to the pressed keys.  linux has no
\* finally block and releases nothing.
on_disconnect(pressed) ==
    IF platform = "windows"
    THEN LET r == release_all_keys(pressed)
         IN  [calls |-> r.calls, pressed |-> r.pressed, releases |-> 1]
    ELSE [calls |-> <<>>, pressed |-> pressed, releases |-> 0]

\* Mutant: the outer loop retried at once, without the sleep
after_fault_no_sleep(w) == "open_connection"

\* Where tcp_client is suspended next after the except/finally blocks:
\* windows closes the writer it has and awaits wait_closed(); linux goes
\* straight to the sleep and leaves the socket as it is.
after_fault(w) ==
    IF platform = "windows" /\ w # 0 THEN "wait_closed" ELSE "sleep"

\* Top of `while True`: writer = None, status "Connecting", open_connection
EnterConnecting ==
    /\ pc' = "open_connection"
    /\ writer' = 0
    /\ connection_status' = IF platform = "windows" THEN "Connecting" ELSE connection_status

\* An exception (or the `break`) leaves the try block: the except clauses
\* log, windows runs `finally`, and the coroutine suspends again.
Fault(act, kind, payload, handed, calls0, pressed0, releases0) ==
    LET r == on_disconnect(pressed0)
        calls == calls0 \o r.calls
    IN  /\ pressed_keys' = r.pressed
        /\ down' = ApplyCalls(down, calls)
        /\ connection_status' =
              IF platform = "windows" THEN "Disconnected" ELSE connection_status
        /\ pc' = after_fault(writer)
        /\ writer' = writer
        /\ open_sockets' = open_sockets
        /\ waits' = 0
        /\ failures' = Min(failures + 1, MaxFailures)
        /\ delay' = IF after_fault(writer) = "sleep" THEN Backoff(failures') ELSE 0
        /\ last' = Step(act, kind, payload, handed, calls, releases0 + r.releases)

Timeouts == IF platform = "windows" THEN {"TimeoutError"} ELSE {}

Init ==
    /\ platform \in {"linux", "windows"}
    /\ pc = "start"
    /\ connection_status = IF platform = "windows" THEN "Disconnected" ELSE "n/a"
    /\ writer = 0
    /\ open_sockets = 0
    /\ length = -1
    /\ pressed_keys = {}
    /\ down = {}
    /\ frames = 0
    /\ dispatched = <<>>
    /\ outbox = <<>>
    /\ waits = 0
    /\ failures = 0
    /\ delay = 0
    /\ rc_last = FALSE
    /\ screen = [w |-> 1920, h |-> 1080]
    /\ poll_pc = "idle"
    /\ stop_event = FALSE
    /\ pending = [loop |-> <<>>, poll |-> <<>>]
    /\ rx = NoBytes
    /\ wire = <<>>
    /\ last = [act |-> "init", fault |-> "none", payload |-> NoPayload,
               handed |-> FALSE, calls |-> <<>>, releases |-> 0, after_rc |-> FALSE]

\* tcp_client() is started by main()
Start ==
    /\ UNCHANGED aux
    /\ pc = "start"
    /\ EnterConnecting
    /\ last' = Step("start", "none", NoPayload, FALSE, <<>>, 0)
    /\ UNCHANGED <<platform, open_sockets, length, pressed_keys, down, frames,
                   dispatched, outbox, waits, failures, delay, rc_last>>

\* open_connection succeeds.  On linux the names reader/writer are rebound
\* here, and the interpreter may then reclaim (and so close) the stream of
\* the session before, or not: the code itself never closes it.
ConnectOk ==
    /\ UNCHANGED aux
    /\ pc = "open_connection"
    /\ open_sockets < MaxSockets
    /\ \E reclaimed \in (IF platform = "linux" /\ open_sockets > 0
                         THEN {0, 1} ELSE {0}) :
           open_sockets' = open_sockets - reclaimed + 1
    /\ writer' = 1
    /\ connection_status' = IF platform = "windows" THEN "Connected" ELSE connection_status
    /\ pc' = "read_header"
    /\ frames' = 0
    /\ dispatched' = <<>>
    /\ outbox' = <<>>
    /\ rc_last' = FALSE
    /\ failures' = 0
    /\ last' = Step("connect", "none", NoPayload, FALSE, <<>>, 0)
    /\ UNCHANGED <<platform, length, pressed_keys, down, waits, delay>>

\* open_connection fails (refused, unreachable) or, on windows, its
\* wait_for(timeout=5.0) expires
ConnectFail ==
    /\ UNCHANGED aux
    /\ pc = "open_connection"
    /\ \E kind \in {"OSError"} \cup Timeouts :
           Fault("connect", kind, NoPayload, FALSE, <<>>, pressed_keys, 0)
    /\ UNCHANGED <<platform, length, frames, dispatched, outbox, rc_last>>

\* header = await _read_exact(reader, 4); length check
ReadHeader ==
    /\ UNCHANGED aux
    /\ pc = "read_header"
    /\ \E L \in HeaderLengths :
           IF BadLength(L)
           THEN /\ Fault("header", "break", NoPayload, FALSE, <<>>, pressed_keys, 0)
                /\ length' = L
           ELSE /\ frames < MaxFrames
                /\ length' = L
                /\ pc' = "read_payload"
                /\ last' = Step("header", "none", NoPayload, FALSE, <<>>, 0)
                /\ UNCHANGED <<connection_status, writer, open_sockets,
                               pressed_keys, down, waits, failures, delay>>
    /\ UNCHANGED <<platform, frames, dispatched, outbox, rc_last>>

\* The header read fails: EOF (ConnectionError), a socket error, or on
\* windows the 30 s wait_for
ReadHeaderFault ==
    /\ UNCHANGED aux
    /\ pc = "read_header"
    /\ \E kind \in {"ConnectionError", "OSError"} \cup Timeouts :
           Fault("header", kind, NoPayload, FALSE, <<>>, pressed_keys, 0)
    /\ UNCHANGED <<platform, length, frames, dispatched, outbox, rc_last>>

\* The payload read fails before `length` bytes arrived
ReadPayloadFault ==
    /\ UNCHANGED aux
    /\ pc = "read_payload"
    /\ \E kind \in {"ConnectionError", "OSError"} \cup Timeouts :
           Fault("payload", kind, NoPayload, FALSE, <<>>, pressed_keys, 0)
    /\ UNCHANGED <<platform, length, frames, dispatched, outbox, rc_last>>

\* Mutant: the frame is left in the write buffer and the loop reads on
after_write_nodrain(w) == "read_header"

\* writer.write(...) is followed at once by `await writer.drain()`
after_write(w) == "drain"

\* Mutant: a latch that lets only the first handback of a session through
should_send_once(ret, out) == ret.should /\ out = <<>>

\* The inner loop sends a returnControl frame when inject_event says so
should_send(ret, out) == ret.should

\* Mutant: a decoder that hands undecodable bytes on instead of raising
json_loads_lenient(p) == FALSE

\* json.loads(payload.decode("utf-8")) raises (UnicodeDecodeError,
\* JSONDecodeError) unless the payload is UTF-8 JSON
json_loads_raises(p) == p.json = "invalid"

\* inject_event is called with the decoded event, once
Dispatch(log, i) == Append(log, i)

\* payload = await _read_exact(reader, length); json.loads; inject_event;
\* and, on a handback, writer.write of the returnControl frame
ReadPayload ==
    /\ UNCHANGED aux
    /\ pc = "read_payload"
    /\ frames' = frames + 1
    /\ \E p \in Payloads :
           IF json_loads_raises(p)
           THEN /\ Fault("payload", "DecodeError", p, FALSE, <<>>, pressed_keys, 0)
                /\ UNCHANGED <<dispatched, outbox, rc_last>>
           ELSE LET o == inject_event(p, pressed_keys)
                IN  /\ dispatched' = Dispatch(dispatched, frames + 1)
                    /\ rc_last' = (p.type = "returnControl")
                    /\ IF o.raised
                       THEN /\ Fault("payload", "InjectError", p, TRUE, o.calls,
                                     o.pressed, o.releases)
                            /\ UNCHANGED outbox
                       ELSE /\ pressed_keys' = o.pressed
                            /\ down' = ApplyCalls(down, o.calls)
                            /\ last' = Step("payload", "none", p, TRUE, o.calls, o.releases)
                            /\ IF should_send(o.ret, outbox)
                               THEN /\ outbox' = Append(outbox, ReturnFrame(o.ret))
                                    /\ pc' = after_write(writer)
                               ELSE /\ outbox' = outbox
                                    /\ pc' = "read_header"
                            /\ UNCHANGED <<connection_status, writer, open_sockets,
                                           waits, failures, delay>>
    /\ UNCHANGED <<platform, length>>

\* Mutant: the inner loop ended (`break`) once control was handed back
after_handback_break(w) == after_fault(w)

\* After the returnControl frame is written and drained the `if` ends and
\* `while True` goes round again: the next await is the header read
after_handback(w) == "read_header"

\* await writer.drain() returns
DrainOk ==
    /\ UNCHANGED aux
    /\ pc = "drain"
    /\ pc' = after_handback(writer)
    /\ last' = Step("drain", "none", NoPayload, FALSE, <<>>, 0)
    /\ UNCHANGED <<platform, connection_status, writer, open_sockets, length,
                   pressed_keys, down, frames, dispatched, outbox, waits,
                   failures, delay, rc_last>>

\* await writer.drain() raises: the connection was lost
DrainFault ==
    /\ UNCHANGED aux
    /\ pc = "drain"
    /\ Fault("drain", "ConnectionError", NoPayload, FALSE, <<>>, pressed_keys, 0)
    /\ UNCHANGED <<platform, length, frames, dispatched, outbox, rc_last>>

\* windows: writer.close(); await writer.wait_closed() returns (or raises,
\* which is swallowed); the socket is closed by then
WaitClosed ==
    /\ UNCHANGED aux
    /\ pc = "wait_closed"
    /\ open_sockets' = open_sockets - 1
    /\ pc' = "sleep"
    /\ delay' = Backoff(failures)
    /\ last' = Step("wait_closed", "none", NoPayload, FALSE, <<>>, 0)
    /\ UNCHANGED <<platform, connection_status, writer, length, pressed_keys,
                   down, frames, dispatched, outbox, waits, failures, rc_last>>

\* await asyncio.sleep(RECONNECT_DELAY) returns and the outer loop starts over
Sleep ==
    /\ UNCHANGED aux
    /\ pc = "sleep"
    /\ waits' = waits + 1
    /\ delay' = 0
    /\ EnterConnecting
    /\ last' = Step("sleep", "none", NoPayload, FALSE, <<>>, 0)
    /\ UNCHANGED <<platform, open_sockets, length, pressed_keys, down, frames,
                   dispatched, outbox, failures, rc_last>>

Next ==
    \/ Start
    \/ ConnectOk
    \/ ConnectFail
    \/ ReadHeader
    \/ ReadHeaderFault
    \/ ReadPayload
    \/ ReadPayloadFault
    \/ DrainOk
    \/ DrainFault
    \/ WaitClosed
    \/ Sleep

Spec == Init /\ [][Next]_vars

\* The event loop resumes a coroutine whose await has completed: the sleep
\* timer fires, and close() schedules connection_lost, which completes
\* wait_closed().
LiveSpec == Spec /\ WF_vars(Start) /\ WF_vars(WaitClosed) /\ WF_vars(Sleep)

\* windows: the wait_for around a read expires (30 s for the header, 10 s
\* for the payload).  linux awaits _read_exact bare.
ReadTimeout ==
    /\ pc \in {"read_header", "read_payload"}
    /\ "TimeoutError" \in Timeouts
    /\ Fault(IF pc = "read_header" THEN "header" ELSE "payload", "TimeoutError",
             NoPayload, FALSE, <<>>, pressed_keys, 0)
    /\ UNCHANGED <<platform, length, frames, dispatched, outbox, rc_last>>
    /\ UNCHANGED aux

\* The timer of a wait_for fires unless the read completes first
IdleSpec == LiveSpec /\ WF_vars(ReadTimeout)

----------------------------------------------------------------------------
(* inject_event on its own: one event, drawn at the start, is dispatched *)

\* How far outside [0,1] a received coordinate lies, in whole screens
FarOut == 1000

\* Screen sizes found at startup.  0x0 is what GetSystemMetrics gives when
\* it fails.
Geometries ==
    {[w |-> 1920, h |-> 1080], [w |-> 7, h |-> 3], [w |-> 1, h |-> 1],
     [w |-> 0, h |-> 0], [w |-> 0, h |-> 1080], [w |-> 1920, h |-> 0]}

\* Numerators of the normalized coordinates tried: all of [0,1] in steps of
\* 1/NormDen, and some values outside it
NormNums ==
    (0..NormDen) \cup {-FarOut * NormDen, -NormDen, -1, NormDen + 1, 2 * NormDen,
                       FarOut * NormDen}

InjectPayloads ==
    Payloads
    \cup {Move(Num(n), Num(n)) : n \in NormNums}
    \cup {Move(Num(n), Num(NormDen - n)) : n \in NormNums}
    \cup {Move(Num(NormDen \div 2), Num(n)) : n \in {0, NormDen}}

InitInject ==
    /\ platform \in {"linux", "windows"}
    /\ screen \in Geometries
    /\ pc = "inject"
    /\ connection_status = IF platform = "windows" THEN "Connected" ELSE "n/a"
    /\ writer = 1
    /\ open_sockets = 1
    /\ length = 1
    /\ pressed_keys = {}
    /\ down = {}
    /\ frames = 0
    /\ dispatched = <<>>
    /\ outbox = <<>>
    /\ waits = 0
    /\ failures = 0
    /\ delay = 0
    /\ rc_last = FALSE
    /\ poll_pc = "idle"
    /\ stop_event = FALSE
    /\ pending = [loop |-> <<>>, poll |-> <<>>]
    /\ rx = NoBytes
    /\ wire = <<>>
    /\ \E p \in InjectPayloads :
           last = [act |-> "input", fault |-> "none", payload |-> p,
                   handed |-> FALSE, calls |-> <<>>, releases |-> 0,
                   after_rc |-> FALSE]

\* should_return, norm_y = inject_event(event), and the frame the read loop
\* builds from it
Inject ==
    /\ pc = "inject"
    /\ json_loads_raises(last.payload) = FALSE
    /\ pc' = "injected"
    /\ LET p == last.payload
           o == inject_event(p, pressed_keys)
       IN  /\ pressed_keys' = o.pressed
           /\ down' = ApplyCalls(down, o.calls)
           /\ outbox' = IF ~o.raised /\ should_send(o.ret, outbox)
                        THEN Append(outbox, ReturnFrame(o.ret)) ELSE outbox
           /\ last' = Step("inject", IF o.raised THEN "InjectError" ELSE "none",
                           p, TRUE, o.calls, o.releases)
    /\ UNCHANGED <<platform, connection_status, writer, open_sockets, length,
                   frames, dispatched, waits, failures, delay, rc_last>>
    /\ UNCHANGED aux

NextInject == Inject

InjectSpec == InitInject /\ [][NextInject]_vars

----------------------------------------------------------------------------
(* linux: _edge_detection_loop, run as a task beside the read loop of one
   session and given that session's writer.  tcp_client itself never
   creates the task. *)

\* What one writer.write call is given: parts of frames, in order.  The
\* header stands for struct.pack("!I", len(payload)) of the frame it names.
Chunk(part, by, seq, frame) == [part |-> part, by |-> by, seq |-> seq, frame |-> frame]

\* Mutant: header and payload go out in two calls with a drain in between
frame_writes_split(by, seq, frame) ==
    <<<<Chunk("header", by, seq, frame)>>, <<Chunk("payload", by, seq, frame)>>>>

\* The write calls made for one frame: writer.write(header + payload), once
frame_writes(by, seq, frame) ==
    <<<<Chunk("header", by, seq, frame), Chunk("payload", by, seq, frame)>>>>

\* return_event of the polling loop for a cursor seen at row y
poll_return_event(y) ==
    [type |-> "returnControl", normalizedX |-> 0,
     num |-> IF SCREEN_HEIGHT # 0 THEN y ELSE 0,
     den |-> IF SCREEN_HEIGHT # 0 THEN SCREEN_HEIGHT ELSE 1,
     edge |-> "left"]

\* What _get_cursor_position may return: None, or the pointer position that
\* xdotool reports.  The position is in the coordinates of the whole X
\* screen, while SCREEN_HEIGHT is the height of the first output xrandr
\* lists (or the 1080 default), so y is not bounded by it.
NoPosition == [x |-> -1, y |-> -1]
CursorPositions ==
    {NoPosition}
    \cup [x : {0, EDGE_THRESHOLD, EDGE_THRESHOLD + 1},
          y : {0, Max(0, SCREEN_HEIGHT - 1), SCREEN_HEIGHT, 2 * SCREEN_HEIGHT + 1}]

\* Events the read loop receives while the polling loop runs
PollPayloads ==
    {Move(Num(0), Num(0)), Move(Num(0), Num(NormDen)),
     Move(Num(-NormDen), Num(2 * NormDen)), Move(Num(NormDen \div 2), Num(NormDen \div 2))}

InitPoll ==
    /\ platform = "linux"
    /\ screen \in Geometries
    /\ pc = "read_header"
    /\ connection_status = "n/a"
    /\ writer = 1
    /\ open_sockets = 1
    /\ length = -1
    /\ pressed_keys = {}
    /\ down = {}
    /\ frames = 0
    /\ dispatched = <<>>
    /\ outbox = <<>>
    /\ waits = 0
    /\ failures = 0
    /\ delay = 0
    /\ rc_last = FALSE
    /\ poll_pc = "idle"
    /\ stop_event = FALSE
    /\ pending = [loop |-> <<>>, poll |-> <<>>]
    /\ rx = NoBytes
    /\ wire = <<>>
    /\ last = [act |-> "connect", fault |-> "none", payload |-> NoPayload,
               handed |-> FALSE, calls |-> <<>>, releases |-> 0, after_rc |-> FALSE]

main == <<platform, pc, connection_status, writer, open_sockets, length,
          pressed_keys, down, frames, dispatched, outbox, waits, failures,
          delay, rc_last, last>>

\* Mutant: no `return` after the write; the loop goes on to its sleep
after_poll_write_loop(stop) == "sleep"

\* stop_event.set() is followed by `return`: the coroutine is over
after_poll_write(stop) == "done"

\* The task is created and runs up to its first `while` test
PollCreate ==
    /\ poll_pc = "idle"
    /\ poll_pc' = "check"
    /\ UNCHANGED <<main, rx, screen, stop_event, pending, wire>>

\* One turn of the loop, from the `while` test to the next await
PollTick ==
    /\ poll_pc = "check"
    /\ IF stop_event
       THEN /\ poll_pc' = "done"
            /\ UNCHANGED <<pending, wire>>
       ELSE \E pos \in CursorPositions :
               IF pos # NoPosition /\ at_edge(pos.x)
               THEN LET w == frame_writes("poll", 1, poll_return_event(pos.y))
                    IN  /\ wire' = wire \o Head(w)
                        /\ pending' = [pending EXCEPT !.poll = Tail(w)]
                        /\ poll_pc' = "drain"
               ELSE /\ poll_pc' = "sleep"
                    /\ UNCHANGED <<pending, wire>>
    /\ UNCHANGED <<main, rx, screen, stop_event>>

\* await writer.drain() is over (returned, or raised and was logged):
\* stop_event.set(); return
PollDrain ==
    /\ poll_pc = "drain"
    /\ IF pending.poll # <<>>
       THEN /\ wire' = wire \o Head(pending.poll)
            /\ pending' = [pending EXCEPT !.poll = Tail(pending.poll)]
            /\ UNCHANGED <<poll_pc, stop_event>>
       ELSE /\ stop_event' = TRUE
            /\ poll_pc' = after_poll_write(stop_event)
            /\ UNCHANGED <<pending, wire>>
    /\ UNCHANGED <<main, rx, screen>>

\* await asyncio.sleep(EDGE_POLL_INTERVAL) is over
PollWake ==
    /\ poll_pc = "sleep"
    /\ poll_pc' = "check"
    /\ UNCHANGED <<main, rx, screen, stop_event, pending, wire>>

\* Whoever holds stop_event sets it
SetStop ==
    /\ poll_pc \notin {"idle", "done"}
    /\ ~stop_event
    /\ stop_event' = TRUE
    /\ UNCHANGED <<main, rx, screen, poll_pc, pending, wire>>

\* The read loop reads one frame, dispatches it and, if inject_event says
\* so, writes its returnControl frame
LoopFrame ==
    /\ pc = "read_header"
    /\ frames < MaxFrames
    /\ frames' = frames + 1
    /\ \E p \in PollPayloads :
           LET o == inject_event(p, pressed_keys)
               w == frame_writes("loop", frames + 1, ReturnFrame(o.ret))
           IN  /\ dispatched' = Dispatch(dispatched, frames + 1)
               /\ last' = Step("payload", "none", p, TRUE, o.calls, o.releases)
               /\ IF should_send(o.ret, outbox)
                  THEN /\ outbox' = Append(outbox, ReturnFrame(o.ret))
                       /\ wire' = wire \o Head(w)
                       /\ pending' = [pending EXCEPT !.loop = Tail(w)]
                       /\ pc' = after_write(writer)
                  ELSE /\ pc' = "read_header"
                       /\ UNCHANGED <<outbox, wire, pending>>
    /\ UNCHANGED <<platform, connection_status, writer, open_sockets, length,
                   pressed_keys, down, waits, failures, delay, rc_last>>
    /\ UNCHANGED <<rx, screen, poll_pc, stop_event>>

\* The read loop's await writer.drain() returns
LoopDrain ==
    /\ pc = "drain"
    /\ IF pending.loop # <<>>
       THEN /\ wire' = wire \o Head(pending.loop)
            /\ pending' = [pending EXCEPT !.loop = Tail(pending.loop)]
            /\ UNCHANGED pc
       ELSE /\ pc' = after_handback(writer)
            /\ UNCHANGED <<pending, wire>>
    /\ UNCHANGED <<platform, connection_status, writer, open_sockets, length,
                   pressed_keys, down, frames, dispatched, outbox, waits,
                   failures, delay, rc_last, last>>
    /\ UNCHANGED <<rx, screen, poll_pc, stop_event>>

NextPoll ==
    \/ PollCreate
    \/ PollTick
    \/ PollDrain
    \/ PollWake
    \/ SetStop
    \/ LoopFrame
    \/ LoopDrain

PollSpec == InitPoll /\ [][NextPoll]_vars

----------------------------------------------------------------------------
(* Framing, byte by byte: struct.pack/unpack, json.dumps/loads of the
   returnControl event, and _read_exact fed by reads of any size *)

\* Most bytes one reader.read returns, unless it returns all that was asked
MaxChunk == 3
\* Frames in the stream the peer sends before it closes
MaxStreamFrames == 2
\* Most digits float_repr is asked for after the point
MaxDigits == 6

\* Mutant: struct.pack("<I", n), little-endian
pack_I_little(n) ==
    <<n % 256, (n \div 2^8) % 256, (n \div 2^16) % 256, (n \div 2^24) % 256>>

\* struct.pack("!I", n): four bytes, most significant first
pack_I(n) ==
    <<(n \div 2^24) % 256, (n \div 2^16) % 256, (n \div 2^8) % 256, n % 256>>

\* struct.unpack("!I", b)[0]
unpack_I(b) == b[1] * 2^24 + b[2] * 2^16 + b[3] * 2^8 + b[4]

\* ASCII of  {"type": "returnControl", "normalizedX": 0, "normalizedY":
\* followed by a space: what json.dumps writes before the value of normalizedY
JsonHead ==
    <<123, 34, 116, 121, 112, 101, 34, 58, 32, 34, 114, 101, 116, 117, 114, 110,
      67, 111, 110, 116, 114, 111, 108, 34, 44, 32, 34, 110, 111, 114, 109, 97,
      108, 105, 122, 101, 100, 88, 34, 58, 32, 48, 44, 32, 34, 110, 111, 114,
      109, 97, 108, 105, 122, 101, 100, 89, 34, 58, 32>>

\* ASCII of  , "edge": "left"}  : what json.dumps writes after it
JsonTail ==
    <<44, 32, 34, 101, 100, 103, 101, 34, 58, 32, 34, 108, 101, 102, 116, 34, 125>>

AsciiZero == 48     \* "0"
AsciiPoint == 46    \* "."

\* Digits of r/den after the point, by long division, at most n of them
RECURSIVE FracDigits(_, _, _)
FracDigits(r, den, n) ==
    IF r = 0 \/ n = 0 THEN <<>>
    ELSE <<AsciiZero + (10 * r) \div den>> \o FracDigits((10 * r) % den, den, n - 1)

\* repr of the float num/den in [0,1) when its decimal expansion is finite:
\* "0." and the digits ("0.0" for zero)
float_repr(num, den) ==
    <<AsciiZero, AsciiPoint>>
    \o (IF num = 0 THEN <<AsciiZero>> ELSE FracDigits(num, den, MaxDigits))

\* json.dumps(return_event).encode("utf-8").  norm_y is the int 0 when
\* SCREEN_HEIGHT is 0 and the float y / SCREEN_HEIGHT otherwise.
json_dumps(frame) ==
    JsonHead
    \o (IF SCREEN_HEIGHT = 0 THEN <<AsciiZero>> ELSE float_repr(frame.num, frame.den))
    \o JsonTail

\* ret_header + ret_payload
encode_frame(frame) ==
    LET payload == json_dumps(frame)
    IN  pack_I(Len(payload)) \o payload

IsDigit(b) == AsciiZero <= b /\ b <= AsciiZero + 9

\* The integer a string of digits denotes
RECURSIVE DigitsValue(_)
DigitsValue(ds) ==
    IF ds = <<>> THEN 0
    ELSE 10 * DigitsValue(SubSeq(ds, 1, Len(ds) - 1)) + (ds[Len(ds)] - AsciiZero)

\* The JSON number in `text`: digits, or digits "." digits; ok is FALSE for
\* anything else
parse_number(text) ==
    LET points == {i \in DOMAIN text : text[i] = AsciiPoint}
    IN  IF text # <<>> /\ \A i \in DOMAIN text : IsDigit(text[i])
        THEN [ok |-> TRUE, num |-> DigitsValue(text), den |-> 1]
        ELSE IF /\ Cardinality(points) = 1
                /\ \A i \in DOMAIN text \ points : IsDigit(text[i])
                /\ 1 \notin points /\ Len(text) \notin points
        THEN LET p == CHOOSE i \in points : TRUE
                 digits == SubSeq(text, 1, p - 1) \o SubSeq(text, p + 1, Len(text))
             IN  [ok |-> TRUE, num |-> DigitsValue(digits), den |-> 10^(Len(text) - p)]
        ELSE [ok |-> FALSE, num |-> 0, den |-> 1]

\* json.loads(payload.decode("utf-8")) for the texts json_dumps writes; any
\* other text (a cut-off one, say) raises
json_loads(bytes) ==
    LET n == Len(bytes)
        h == Len(JsonHead)
        t == Len(JsonTail)
        v == IF n > h + t THEN parse_number(SubSeq(bytes, h + 1, n - t))
             ELSE [ok |-> FALSE, num |-> 0, den |-> 1]
    IN  IF /\ v.ok
           /\ SubSeq(bytes, 1, h) = JsonHead
           /\ SubSeq(bytes, n - t + 1, n) = JsonTail
        THEN [ok |-> TRUE,
              event |-> [type |-> "returnControl", normalizedX |-> 0,
                         num |-> v.num, den |-> v.den, edge |-> "left"]]
        ELSE [ok |-> FALSE, event |-> ReturnFrame(NoReturn)]

RECURSIVE EncodeAll(_)
EncodeAll(evs) ==
    IF evs = <<>> THEN <<>> ELSE encode_frame(Head(evs)) \o EncodeAll(Tail(evs))

\* Screens and pointer rows for which y / SCREEN_HEIGHT has a finite decimal
\* expansion, so that float_repr gives the text repr gives
FrameScreens == {[w |-> 1920, h |-> 1080], [w |-> 1920, h |-> 0]}
ExactRows ==
    IF SCREEN_HEIGHT = 0 THEN {0}
    ELSE {0, SCREEN_HEIGHT \div 40, SCREEN_HEIGHT \div 4, SCREEN_HEIGHT \div 2}

\* The returnControl events the read loop can encode
SentFrames == {ReturnFrame(EdgeReturn(y)) : y \in ExactRows}

\* Where the peer may close: inside and at the ends of headers and payloads
Cuts(evs) ==
    LET n == Len(EncodeAll(evs))
        f == Len(encode_frame(evs[1]))
    IN  {0, 2, 4, 5, f - 1, f, f + 2, f + 4, f + 5, n - 1, n} \cap (0..n)

InitFrame ==
    /\ platform \in {"linux", "windows"}
    /\ screen \in FrameScreens
    /\ pc = "read_header"
    /\ connection_status = IF platform = "windows" THEN "Connected" ELSE "n/a"
    /\ writer = 1
    /\ open_sockets = 1
    /\ length = -1
    /\ pressed_keys = {}
    /\ down = {}
    /\ frames = 0
    /\ dispatched = <<>>
    /\ outbox = <<>>
    /\ waits = 0
    /\ failures = 0
    /\ delay = 0
    /\ rc_last = FALSE
    /\ poll_pc = "idle"
    /\ stop_event = FALSE
    /\ pending = [loop |-> <<>>, poll |-> <<>>]
    /\ wire = <<>>
    /\ last = [act |-> "connect", fault |-> "none", payload |-> NoPayload,
               handed |-> FALSE, calls |-> <<>>, releases |-> 0, after_rc |-> FALSE]
    /\ \E n \in 1..MaxStreamFrames :
         \E evs \in [1..n -> SentFrames] :
           \E c \in Cuts(evs) :
              rx = [stream |-> SubSeq(EncodeAll(evs), 1, c), data |-> <<>>,
                    sent |-> evs, total |-> c]

\* Mutant: one reader.read(n) taken for the whole read
read_complete_first_chunk(data, n) == TRUE

\* `while len(data) < n` is over
read_complete(data, n) == Len(data) >= n

\* chunk = await reader.read(n - len(data)) returns some bytes; data += chunk;
\* and, when _read_exact returns with that, what tcp_client does with the
\* header or the payload up to its next read
ReadChunk ==
    /\ pc \in {"read_header", "read_payload"}
    /\ rx.stream # <<>>
    /\ LET n == IF pc = "read_header" THEN 4 ELSE length
           most == Min(n - Len(rx.data), Len(rx.stream))
       IN  \E k \in {j \in 1..most : j <= MaxChunk \/ j = most} :
             LET data == rx.data \o SubSeq(rx.stream, 1, k)
                 rest == SubSeq(rx.stream, k + 1, Len(rx.stream))
             IN  IF ~read_complete(data, n)
                 THEN /\ rx' = [rx EXCEPT !.stream = rest, !.data = data]
                      /\ UNCHANGED <<pc, connection_status, writer, open_sockets,
                                     length, pressed_keys, down, frames, dispatched,
                                     waits, failures, delay, last>>
                 ELSE /\ rx' = [rx EXCEPT !.stream = rest, !.data = <<>>]
                      /\ IF pc = "read_header"
                         THEN IF Len(data) # 4                 \* struct.error
                              THEN /\ Fault("header", "DecodeError", NoPayload, FALSE,
                                            <<>>, pressed_keys, 0)
                                   /\ UNCHANGED <<length, frames, dispatched>>
                              ELSE IF BadLength(unpack_I(data))
                              THEN /\ Fault("header", "break", NoPayload, FALSE, <<>>,
                                            pressed_keys, 0)
                                   /\ length' = unpack_I(data)
                                   /\ UNCHANGED <<frames, dispatched>>
                              ELSE /\ length' = unpack_I(data)
                                   /\ pc' = "read_payload"
                                   /\ last' = Step("header", "none", NoPayload, FALSE, <<>>, 0)
                                   /\ UNCHANGED <<connection_status, writer, open_sockets,
                                                  pressed_keys, down, frames, dispatched,
                                                  waits, failures, delay>>
                         ELSE /\ frames' = frames + 1
                              /\ IF json_loads(data).ok
                                 THEN /\ dispatched' = Dispatch(dispatched, json_loads(data).event)
                                      /\ pc' = "read_header"
                                      /\ last' = Step("payload", "none", NoPayload, TRUE, <<>>, 0)
                                      /\ UNCHANGED <<connection_status, writer, open_sockets,
                                                     length, pressed_keys, down, waits,
                                                     failures, delay>>
                                 ELSE /\ Fault("payload", "DecodeError", NoPayload, FALSE,
                                               <<>>, pressed_keys, 0)
                                      /\ UNCHANGED <<length, dispatched>>
    /\ UNCHANGED <<platform, outbox, rc_last, screen, poll_pc, stop_event, pending, wire>>

\* reader.read returns b"" (the peer has closed): ConnectionError
ReadEof ==
    /\ pc \in {"read_header", "read_payload"}
    /\ rx.stream = <<>>
    /\ Fault(IF pc = "read_header" THEN "header" ELSE "payload", "ConnectionError",
             NoPayload, FALSE, <<>>, pressed_keys, 0)
    /\ rx' = [rx EXCEPT !.data = <<>>]
    /\ UNCHANGED <<platform, length, frames, dispatched, outbox, rc_last, screen,
                   poll_pc, stop_event, pending, wire>>

NextFrame ==
    \/ ReadChunk
    \/ ReadEof

FrameSpec == InitFrame /\ [][NextFrame]_vars

----------------------------------------------------------------------------
(* Claims *)

DispatchedReturnControl ==
    last.act = "payload" /\ last.handed /\ last.fault = "none"
    /\ last.payload.type = "returnControl"

\* C1: once the client is Disconnected, or has finished dispatching a
\* returnControl, no key or button whose last injected state was "down" is
\* still down (on either platform).
C1_NoStuckInput ==
    (State = "Disconnected" \/ DispatchedReturnControl) => down = {}

C3_AtMostOneReturn == Len(outbox) <= 1

\* The event is a mouseMove whose pixel x is within the edge threshold
EdgeMove(p) ==
    /\ p.json = "object" /\ p.type = "mouseMove"
    /\ IsNumber(p.normalizedX) /\ IsNumber(p.normalizedY)
    /\ Pixel(NumOr0(p.normalizedX), SCREEN_WIDTH) <= EDGE_THRESHOLD

\* C3 (amended): there is no latch: every dispatched mouseMove at the left
\* edge writes one more returnControl frame in the same session, and no
\* other step writes one.
C3_ReturnPerEdgeMove ==
    [][IF frames' = frames + 1 /\ last'.handed /\ EdgeMove(last'.payload)
       THEN Len(outbox') = Len(outbox) + 1 /\ pc' = "drain"
       ELSE outbox' = outbox \/ (last'.act = "connect" /\ outbox' = <<>>)]_vars

\* C3 witness: a second returnControl frame was written in one session
C3_Witness ==
    Len(outbox) >= 2 /\ pc = "drain" /\ EdgeMove(last.payload)

\* C4: a fault while Connected closes the session's socket: no socket of an
\* earlier session is open when a Connecting phase begins, and at most one
\* socket is open at any time.
C4_SocketClosedOnFault ==
    /\ open_sockets <= 1
    /\ State = "Connecting" => open_sockets = 0

HeaderRead == last.act = "header" /\ last.fault \in {"none", "break"}

\* C6: a header with L = 0 or L > 1,000,000 ends the session without a
\* payload read or a dispatch and the connection is closed before the
\* backoff; a header with 1 <= L <= 1,000,000 keeps the session Connected.
C6_BadLengthCloses ==
    /\ (HeaderRead /\ BadLength(length))
          => (State = "Disconnected" /\ ~last.handed /\ last.fault = "break"
              /\ pc # "read_payload")
    /\ (BadLength(length) /\ pc \in {"sleep", "open_connection"}) => open_sockets = 0
    /\ (HeaderRead /\ ~BadLength(length))
          => (State = "Connected" /\ pc = "read_payload")

\* C7: applying any payload that decodes as JSON leaves the session
\* Connected with its socket open.
C7_MessageErrorsAbsorbed ==
    (last.act = "payload" /\ last.payload.json \in {"scalar", "object"})
        => (State = "Connected" /\ last.fault = "none" /\ open_sockets >= 1)

\* C8: from every Disconnected state the client re-enters Connecting, and
\* every backoff sleep is RECONNECT_DELAY whatever the number of consecutive
\* failures before it.
C8_RetryForever ==
    /\ (State = "Disconnected") ~> (State = "Connecting")
    /\ [](pc = "sleep" => delay = RECONNECT_DELAY)
    /\ [](pc \in {"start", "open_connection", "read_header", "read_payload",
                  "drain", "wait_closed", "sleep"})

\* C8 witness: a backoff sleep after several consecutive failures
C8_Witness ==
    pc = "sleep" /\ failures >= 2 /\ delay = RECONNECT_DELAY /\ State = "Disconnected"

AllowedTransitions ==
    {<<"Connecting", "Connected">>, <<"Connecting", "Disconnected">>,
     <<"Connected", "Disconnected">>, <<"Disconnected", "Connecting">>}

\* C9: the state moves only along the four allowed transitions, a connection
\* attempt after a fault follows exactly one backoff sleep, and inject_event
\* is called only while Connected.
C9_StateMachine ==
    [][/\ State' # State => <<State, State'>> \in AllowedTransitions
       /\ (State # "Connecting" /\ State' = "Connecting" /\ pc # "start")
             => (waits' = 1 /\ pc = "sleep")
       /\ last'.handed => (State = "Connected" /\ pc = "read_payload")]_vars

\* C9 witness: a connection attempt after a fault and its backoff sleep
C9_Witness ==
    State = "Connecting" /\ waits = 1 /\ failures >= 1 /\ last.act = "sleep"

\* C10: when the peer closes after n complete valid frames, the n frames
\* were each dispatched once, in arrival order, the session is Disconnected
\* and all pressed input is released before the backoff and the next
\* Connecting.
C10_CloseAfterFrames ==
    (last.act = "header" /\ last.fault = "ConnectionError")
        => /\ dispatched = [i \in 1..frames |-> i]
           /\ State = "Disconnected"
           /\ down = {}
           /\ pc \in {"wait_closed", "sleep"}

\* C11: handing control back does not end the session.  While the
\* returnControl frame is being drained, and once the drain has returned, the
\* state is Connected, the session still has its socket, and the read loop
\* is back at the header read.
C11_HandbackKeepsSession ==
    /\ pc = "drain" => State = "Connected" /\ writer # 0 /\ open_sockets >= 1
    /\ (last.act = "drain" /\ last.fault = "none") =>
           /\ State = "Connected"
           /\ writer # 0
           /\ open_sockets >= 1
           /\ pc = "read_header"

\* A frame is dispatched in a session that has already handed control back
C11_Witness ==
    /\ last.act = "payload" /\ last.handed /\ last.fault = "none"
    /\ last.payload.type = "leftMouseDown"
    /\ Len(outbox) >= 1
    /\ State = "Connected"

\* inject_event returned for the event drawn at the start
Injected == last.act = "inject" /\ last.fault = "none"

\* ... and the event was a mouseMove: the pixel given to the cursor-move call
InjectedMove == Injected /\ last.payload.type = "mouseMove"
MovedX == last.calls[1].code
MovedY == last.calls[1].value

C12_RightEdgeWitness ==
    /\ InjectedMove /\ MovedX = SCREEN_WIDTH - 1 /\ SCREEN_WIDTH > 2 * EDGE_THRESHOLD + 2
    /\ outbox = <<>>

InUnit(v) == v.t = "absent" \/ (v.t = "num" /\ 0 <= v.n /\ v.n <= NormDen)

Round(a, b) ==
    LET m == IF a >= 0 THEN a ELSE -a
        q == m \div b
        r == m % b
        u == IF 2 * r > b \/ (2 * r = b /\ q % 2 = 1) THEN q + 1 ELSE q
    IN  IF a >= 0 THEN u ELSE -u

\* The reference operator of the claim: clamp(round(n * size), 0, size - 1)
RefPixel(n, size) == Max(0, Min(Round(n * size, NormDen), size - 1))

\* C14: the pixel computed for a mouseMove is clamp(round(nx * W), 0, W - 1),
\* and likewise for y, so the handback decision is the one made on the rounded
\* coordinate.
C14_PixelIsRounded ==
    InjectedMove =>
        /\ MovedX = RefPixel(NumOr0(last.payload.normalizedX), SCREEN_WIDTH)
        /\ MovedY = RefPixel(NumOr0(last.payload.normalizedY), SCREEN_HEIGHT)
        /\ (outbox # <<>>) <=>
              (RefPixel(NumOr0(last.payload.normalizedX), SCREEN_WIDTH) <= EDGE_THRESHOLD)

\* The step that hands a decoded frame to inject_event
DispatchStep(p) ==
    pc = "read_payload" /\ last'.act = "payload" /\ last'.handed /\ last'.payload = p

\* What "nothing happened" means for a dispatched event: no injection call,
\* pressed set and held inputs as before, no handback frame, no exception,
\* and the session goes on to the next header
NoEffect ==
    /\ last'.fault = "none"
    /\ last'.calls = <<>>
    /\ last'.releases = 0
    /\ pressed_keys' = pressed_keys
    /\ down' = down
    /\ outbox' = outbox
    /\ pc' = "read_header"
    /\ State' = "Connected"

\* C15: an event object whose type is missing or is none of the known ones
\* is ignored: no injection call, PressedState unchanged, no EdgeSignal, and
\* the session stays Connected.
C15_UnknownTypeIgnored ==
    [][\A p \in Payloads :
          (DispatchStep(p) /\ p.json = "object" /\ p.type \notin KnownTypes) => NoEffect]_vars

\* An unknown type arrives while a button is held, and the session reads on
C15_Witness ==
    /\ last.act = "payload" /\ last.handed /\ last.fault = "none"
    /\ last.payload.type = "bogus"
    /\ down # {}
    /\ pc = "read_header"

\* keyCode is absent, or is not a key of the platform's table
Unmapped(kc) ==
    \/ kc.t \in {"absent", "str"}
    \/ /\ kc.t = "num"
       /\ kc.n \notin (IF platform = "windows" THEN DOMAIN MAC_TO_WIN_KEYCODE
                                              ELSE DOMAIN MAC_TO_LINUX_KEYCODE)

\* C16: a keyDown or keyUp whose keyCode is absent or has no entry in the
\* key table is ignored: no injection call, PressedState unchanged, no
\* EdgeSignal, no disconnect.
C16_UnmappedKeyIgnored ==
    [][\A p \in Payloads :
          (/\ DispatchStep(p) /\ p.json = "object"
           /\ p.type \in {"keyDown", "keyUp"} /\ Unmapped(p.keyCode)) => NoEffect]_vars

\* A keyDown with a code outside the table arrives while a key is held
C16_Witness ==
    /\ last.act = "payload" /\ last.handed /\ last.fault = "none"
    /\ last.payload.type = "keyDown" /\ last.payload.keyCode = Num(9999)
    /\ down # {}
    /\ pc = "read_header"

\* The held input a slot of _pressed_keys stands for: -1 and -2 are the
\* mouse buttons, anything else a virtual key
HeldOf(k) ==
    CASE k = -1 -> Held("button", MOUSEEVENTF_LEFTDOWN)
      [] k = -2 -> Held("button", MOUSEEVENTF_RIGHTDOWN)
      [] OTHER -> Held("key", k)

\* C17: windows: every code in _pressed_keys has had a "down" injected and
\* no "up" injected after it.
C17_PressedIsDown ==
    platform = "windows" => \A k \in pressed_keys : HeldOf(k) \in down

\* A button and a key are both in the pressed set
C17_Witness ==
    /\ platform = "windows"
    /\ pressed_keys = {-1, VK_RETURN}
    /\ last.act = "payload" /\ last.payload.type = "keyDown"

\* The returnControl frames written so far
FramesWritten == {wire[i].frame : i \in DOMAIN wire}

\* C18: every returnControl frame written, by the read loop or by the
\* polling loop, has normalizedX and normalizedY in [0,1] whatever pointer
\* position was seen; and a received mouseMove with coordinates outside
\* [0,1] still moves the cursor to a pixel of the screen.
C18_CoordinatesInUnit ==
    /\ \A f \in FramesWritten :
           /\ f.normalizedX = 0
           /\ f.den > 0 /\ 0 <= f.num /\ f.num <= f.den
    /\ (/\ last.act = "payload" /\ last.payload.type = "mouseMove"
        /\ SCREEN_WIDTH >= 1 /\ SCREEN_HEIGHT >= 1) =>
           /\ 0 <= MovedX /\ MovedX < SCREEN_WIDTH
           /\ 0 <= MovedY /\ MovedY < SCREEN_HEIGHT

\* The same for the frames of the read loop alone
C18_ReadLoopFramesInUnit ==
    \A i \in DOMAIN wire :
        wire[i].by = "loop" =>
            /\ wire[i].frame.den > 0
            /\ 0 <= wire[i].frame.num /\ wire[i].frame.num <= wire[i].frame.den

\* C20: what the peer receives is a concatenation of whole frames, each a
\* header followed at once by its own payload, however the writes of the
\* read loop and of the polling loop interleave.
C20_WholeFrames ==
    /\ Len(wire) % 2 = 0
    /\ \A i \in DOMAIN wire :
           IF i % 2 = 1
           THEN /\ wire[i].part = "header"
                /\ wire[i + 1] = [wire[i] EXCEPT !.part = "payload"]
           ELSE wire[i].part = "payload"

\* The polling loop wrote its frame while the read loop was still draining
\* one of its own
C20_Witness ==
    /\ pc = "drain" /\ poll_pc = "drain"
    /\ Len(wire) = 4
    /\ wire[1].by = "loop" /\ wire[3].by = "poll"

\* C19: a read that the peer never answers does not last forever: the
\* client is not left waiting in the header read or in the payload read
\* from some point on, it reaches Disconnected and connects again.
C19_ReadIsBounded ==
    /\ []<>(pc # "read_header")
    /\ []<>(pc # "read_payload")

\* The same for the windows client alone
C19_WindowsReadIsBounded ==
    platform = "windows" => C19_ReadIsBounded

\* C22: with a screen width or height of 0 a mouseMove is dispatched without
\* an error (nothing is divided by zero), and with a height of 0 every
\* handback carries normalizedY = 0.
C22_ZeroGeometry ==
    (/\ last.act = "inject" /\ last.payload.type = "mouseMove"
     /\ IsNumber(last.payload.normalizedX) /\ IsNumber(last.payload.normalizedY)
     /\ (SCREEN_WIDTH = 0 \/ SCREEN_HEIGHT = 0)) =>
        /\ last.fault = "none"
        /\ Len(last.calls) = 1
        /\ \A i \in DOMAIN outbox :
              /\ outbox[i].den # 0
              /\ SCREEN_HEIGHT = 0 => outbox[i].num = 0

\* A move on a screen of height 0 that lands at the left edge and hands back
C22_Witness ==
    /\ InjectedMove
    /\ SCREEN_HEIGHT = 0 /\ SCREEN_WIDTH > 2 * EDGE_THRESHOLD
    /\ last.payload.normalizedY = Num(NormDen)
    /\ outbox # <<>>

\* The step dispatches a mouseMove that put the cursor at the left edge
HandbackDispatch ==
    /\ pc = "read_payload"
    /\ last'.act = "payload" /\ last'.handed /\ last'.fault = "none"
    /\ last'.payload.type = "mouseMove"
    /\ last'.calls[1].code <= EDGE_THRESHOLD

\* C24: the returnControl frame is written in the very step that dispatched
\* the move, and the loop then awaits the drain: until the drain is over no
\* frame is read or dispatched.  A drain that fails takes the session to
\* Disconnected, and nothing more is dispatched before the next connect.
C24_HandbackAtOnce ==
    [][/\ HandbackDispatch =>
             /\ Len(outbox') = Len(outbox) + 1
             /\ outbox'[Len(outbox')].type = "returnControl"
             /\ pc' = "drain"
       /\ pc = "drain" =>
             /\ dispatched' = dispatched /\ frames' = frames /\ outbox' = outbox
             /\ last'.act = "drain"
             /\ IF last'.fault = "none"
                THEN pc' = "read_header" /\ State' = "Connected"
                ELSE State' = "Disconnected" /\ pc' \in {"wait_closed", "sleep"}
       /\ (State = "Disconnected" /\ State' = "Disconnected") => dispatched' = dispatched
      ]_vars

\* The drain of a handback failed after an earlier frame had been dispatched
C24_Witness ==
    /\ last.act = "drain" /\ last.fault = "ConnectionError"
    /\ State = "Disconnected"
    /\ Len(outbox) = 1 /\ Len(dispatched) = 2

\* The chunks the polling loop has written
PollWritten(w) == {i \in DOMAIN w : w[i].by = "poll"}

\* C25: the polling loop writes at most one returnControl frame; when the
\* drain after its write is over (returned or raised) it sets stop_event and
\* is done for good; and in no step taken with stop_event set does it write.
C25_PollFiresOnce ==
    [][/\ Cardinality({i \in PollWritten(wire') : wire'[i].part = "header"}) <= 1
       /\ Cardinality({i \in PollWritten(wire') : wire'[i].part = "payload"}) <= 1
       /\ stop_event => (stop_event' /\ PollWritten(wire') = PollWritten(wire))
       /\ (poll_pc = "drain" /\ poll_pc' # "drain") => (stop_event' /\ poll_pc' = "done")
       /\ PollWritten(wire') # PollWritten(wire) => poll_pc' = "drain"
       /\ poll_pc = "done" => poll_pc' = "done"
      ]_vars

\* The loop has written its frame, set stop_event and ended, and the read
\* loop has written a frame of its own after that
C25_Witness ==
    /\ poll_pc = "done" /\ stop_event
    /\ Len(wire) = 4
    /\ wire[1].by = "poll" /\ wire[3].by = "loop"

\* stop_event was set by someone else and the loop ended without a write
C25_CancelledWitness ==
    /\ poll_pc = "done" /\ stop_event
    /\ PollWritten(wire) = {}

\* C26: windows: every key and button whose last injected state is "down" is
\* in _pressed_keys, so that after _release_all_keys nothing is down; two
\* received codes with one virtual key, and a key sent down twice, included.
C26_DownIsPressed ==
    platform = "windows" =>
        /\ \A h \in down : \E k \in pressed_keys : HeldOf(k) = h
        /\ last.releases >= 1 => (down = {} /\ pressed_keys = {})

\* _release_all_keys has just let go of a button and a key, in a session
\* that had dispatched three events
C26_Witness ==
    /\ platform = "windows"
    /\ last.releases = 1 /\ Len(last.calls) >= 3
    /\ Len(dispatched) = 3
    /\ down = {}

\* The virtual-key codes the key table can produce
PlatformKeys == {MAC_TO_WIN_KEYCODE[k] : k \in DOMAIN MAC_TO_WIN_KEYCODE}

\* C27: windows: _release_all_keys issues exactly one key-up per held key
\* code, exactly one button-up through the mouse path per held button, and
\* no key-up for anything that is not a platform key code -- none for the
\* slots -1 and -2.
C27_ReleasesMatchHeld ==
    [][(platform = "windows" /\ last'.releases >= 1) =>
          LET cs == last'.calls
              keyups == {i \in DOMAIN cs : cs[i].api = "key"}
              ups(flag) == {i \in DOMAIN cs : cs[i].api = "mouse" /\ cs[i].code = flag}
          IN  /\ \A k \in pressed_keys :
                    k >= 0 => Cardinality({i \in keyups : cs[i].code = k}) = 1
              /\ \A i \in keyups :
                    cs[i].code \in PlatformKeys /\ cs[i].code \in pressed_keys
              /\ Cardinality(ups(MOUSEEVENTF_LEFTUP)) = (IF -1 \in pressed_keys THEN 1 ELSE 0)
              /\ Cardinality(ups(MOUSEEVENTF_RIGHTUP)) = (IF -2 \in pressed_keys THEN 1 ELSE 0)
      ]_vars

\* The same with the key-ups for the two button slots left out of account
C27_ReleasesApartFromSlots ==
    [][(platform = "windows" /\ last'.releases >= 1) =>
          LET cs == last'.calls
              keyups == {i \in DOMAIN cs : cs[i].api = "key"}
              ups(flag) == {i \in DOMAIN cs : cs[i].api = "mouse" /\ cs[i].code = flag}
          IN  /\ \A k \in pressed_keys :
                    k >= 0 => Cardinality({i \in keyups : cs[i].code = k}) = 1
              /\ \A i \in keyups :
                    \/ cs[i].code \in PlatformKeys /\ cs[i].code \in pressed_keys
                    \/ \E k \in pressed_keys \cap {-1, -2} : cs[i].code = k % 65536
              /\ Cardinality(ups(MOUSEEVENTF_LEFTUP)) = (IF -1 \in pressed_keys THEN 1 ELSE 0)
              /\ Cardinality(ups(MOUSEEVENTF_RIGHTUP)) = (IF -2 \in pressed_keys THEN 1 ELSE 0)
      ]_vars

\* Two returnControl events are equal: same fields, same number in normalizedY
EventEq(a, b) ==
    /\ a.type = b.type /\ a.normalizedX = b.normalizedX /\ a.edge = b.edge
    /\ a.num * b.den = b.num * a.den

\* C21: every frame the client encodes starts with four bytes that are the
\* big-endian length of its JSON payload, a length within 1..1,000,000; and
\* the client's own read side (header read, length check, exact payload
\* read, JSON parse) turns the encoded frames back into the events that were
\* encoded, in order.
C21_FramingRoundTrip ==
    /\ \A i \in DOMAIN rx.sent :
          LET f == encode_frame(rx.sent[i])
              L == Len(f) - 4
          IN  /\ \A j \in DOMAIN f : 0 <= f[j] /\ f[j] <= 255
              /\ f[1] * 2^24 + f[2] * 2^16 + f[3] * 2^8 + f[4] = L
              /\ 1 <= L /\ L <= MAX_FRAME_LENGTH
              /\ SubSeq(f, 5, Len(f)) = json_dumps(rx.sent[i])
    /\ Len(dispatched) <= Len(rx.sent)
    /\ \A i \in DOMAIN dispatched : EventEq(dispatched[i], rx.sent[i])
    /\ (/\ rx.total = Len(EncodeAll(rx.sent))
        /\ rx.stream = <<>> /\ rx.data = <<>>) => Len(dispatched) = Len(rx.sent)

\* Two frames with different normalizedY have been encoded, read back and
\* dispatched
C21_Witness ==
    /\ Len(rx.sent) = 2 /\ Len(dispatched) = 2
    /\ rx.sent[1].num # rx.sent[2].num /\ rx.sent[2].num # 0
    /\ rx.stream = <<>>
    /\ pc = "read_header"

\* Frames that lie whole within the first c bytes of the encoded events
RECURSIVE WholeFrames(_, _)
WholeFrames(evs, c) ==
    IF evs = <<>> \/ Len(encode_frame(Head(evs))) > c THEN 0
    ELSE 1 + WholeFrames(Tail(evs), c - Len(encode_frame(Head(evs))))

\* Bytes taken from the reader so far
Consumed == rx.total - Len(rx.stream)

\* Bytes of the frames dispatched so far
DispatchedBytes == Len(EncodeAll(SubSeq(rx.sent, 1, Len(dispatched))))

\* C23: however the byte stream is cut into reads, _read_exact gathers
\* exactly the bytes asked for, so the events dispatched are the frames that
\* arrived whole, in order; and when the stream ends inside a header or a
\* payload the read fails as a closed connection and the unfinished frame is
\* not dispatched.
C23_ChunkingIndependent ==
    /\ Len(dispatched) <= WholeFrames(rx.sent, rx.total)
    /\ \A i \in DOMAIN dispatched : dispatched[i] = json_loads(json_dumps(rx.sent[i])).event
    /\ pc \in {"read_header", "read_payload"} =>
          /\ Len(rx.data) < (IF pc = "read_header" THEN 4 ELSE length)
          /\ Consumed = DispatchedBytes + Len(rx.data)
                        + (IF pc = "read_payload" THEN 4 ELSE 0)
    /\ last.fault # "none" =>
          /\ last.fault = "ConnectionError"
          /\ State = "Disconnected"
          /\ rx.stream = <<>>
          /\ Len(dispatched) = WholeFrames(rx.sent, rx.total)

\* The peer closed inside the payload of the second frame: part of it has
\* been read, in more than one read, and the first frame was dispatched
C23_PartialWitness ==
    /\ pc = "read_payload" /\ rx.stream = <<>> /\ Len(rx.data) >= 1
    /\ Len(dispatched) = 1 /\ Len(rx.sent) = 2

\* ... and the read has failed as a closed connection
C23_Witness ==
    /\ last.act = "payload" /\ last.fault = "ConnectionError"
    /\ Len(dispatched) = 1 /\ Len(rx.sent) = 2
    /\ rx.total > Len(encode_frame(rx.sent[1])) + 4

====
